---- MODULE Spec2Model ----
(***************************************************************************)
(* Registration lifecycle and RSVP state machine of utesca-backend.        *)
(*                                                                         *)
(* The store (Supabase/PostgREST tables `events` and `event_registrations`)*)
(* is the shared state.  Every HTTP request is a sequence of store calls;  *)
(* each store call is atomic (row-level atomicity of the store), and the   *)
(* service code between two store calls runs on request-local data.  A     *)
(* request is therefore modelled as a record in `reqs` whose `pc` names    *)
(* the next store call it will issue.                                      *)
(***************************************************************************)
EXTENDS Integers, Sequences, FiniteSets, TLC

VARIABLES now, events, regs, reqs,
          time_time, email_rate_limiter_lock, last_email_send_time, senders,
          requests, rate_limits, calls,
          call_form_schema, call_form_data, call_files_by_field, validation,
          registration_files

\* the state of the email rate limiter and of the threads sending email
mailVars == <<time_time, email_rate_limiter_lock, last_email_send_time, senders>>

\* the store, the wall clock of the request handlers and the request log
storeVars == <<now, events, regs, reqs>>

\* the request rate limiter: the timestamps it keeps per (ip, bucket), the
\* limit and window its dependencies were made with, and the calls made
limitVars == <<requests, rate_limits, calls>>

\* the arguments of a call of validate_form_data and its progress and result
formVars == <<call_form_schema, call_form_data, call_files_by_field, validation>>

\* the table registration_files of the store
fileVars == <<registration_files>>

vars == <<storeVars, mailVars, limitVars, formVars, fileVars>>

(***************************************************************************)
(* Bounds of the model.                                                    *)
(***************************************************************************)
MaxRequests == 3        \* requests issued in one behaviour
MaxInFlight == 2        \* requests that may overlap in time
MaxCapacity == 2        \* largest max_capacity an event is created with
MaxSenders == 2         \* threads that send an email
MaxTime == 16           \* last tick of time.time()
MaxCalls == 3           \* calls of the request rate limiter
MaxLimit == 2           \* largest limit of a rate-limited route
MaxWindowSeconds == 1   \* largest window_seconds of a rate-limited route
MaxBulk == 2            \* registration ids of a bulk check-in
MaxUploads == 2         \* files uploaded in one behaviour
MaxFields == 2          \* fields of a form schema
MaxChars == 2           \* characters of a string of the form data
MaxItems == 1           \* items of a list of the form data
MaxFiles == 2           \* files attached to a field
MaxFileSize == 2        \* largest file_size of an attached file

(***************************************************************************)
(* Program constants.                                                      *)
(***************************************************************************)
RsvpCutoffHours == 24
\* files_repository.py: deletion_date = event_date.date() + timedelta(days=30)
RetentionDays == 30
\* service.py: MAX_FILE_SIZE = 2_097_152
MAX_FILE_SIZE == 2097152
SecondsPerHour == 3600
\* time.time() counts ninths of a second, so that the
\* minimum interval of 1 / 1.8 s is a whole number of ticks
TicksPerSecond == 9
EMAIL_RATE_LIMIT_RPS_TENTHS == 18

\* The instants the wall clock steps through, in seconds.  The event of the
\* model takes place at 86402, so that 0 and 1 are more than 24h before it
\* (1 by one second), 2 is exactly 24h before it (the cutoff boundary) and
\* 86403 is after it.
Clock == <<0, 1, 2, 86403>>
EventDateTimes == {86402}
NoTime == -1

EventIds == {"e1"}
Slugs == EventIds \cup {"unknown"}
Users == {"u1", "u2"}
NoUser == "null"
MissingId == 0

\* models.py: RegistrationStatus = Literal["submitted", "accepted", "rejected", "confirmed"]
RegistrationStatus == {"submitted", "accepted", "rejected", "confirmed"}
\* every value the status column of the store takes
StoredStatus == RegistrationStatus \cup {"not_attending"}

NoRow ==
  [event_id |-> "none", status |-> "none", reviewed_by |-> NoUser,
   reviewed_at |-> NoTime, confirmed_at |-> NoTime, checked_in |-> FALSE,
   checked_in_by |-> NoUser, checked_in_at |-> NoTime]

NoEvent ==
  [status |-> "none", date_time |-> NoTime, registration_deadline |-> NoTime,
   max_capacity |-> 0, auto_accept |-> FALSE, fields |-> "none"]

\* min_interval = 1.0 / settings.EMAIL_RATE_LIMIT_RPS, in ticks
min_interval == (TicksPerSecond * 10) \div EMAIL_RATE_LIMIT_RPS_TENTHS

Senders == 1..MaxSenders
NoSender == 0

\* a thread that has not yet called send_email
IdleSender == [pc |-> "start", wake_at |-> NoTime, stamp |-> NoTime, sent_at |-> NoTime]

\* leaving the with block releases the lock
release_lock(th) == NoSender

\* the metadata of a request that returned none
NoMeta ==
  [current_status |-> "none", can_confirm |-> FALSE, can_decline |-> FALSE,
   is_final |-> FALSE, event_has_passed |-> FALSE, within_rsvp_cutoff |-> FALSE]

(***************************************************************************)
(* Time-window gates (service.py).                                         *)
(***************************************************************************)
has_event_passed(t, event_date) == t > event_date

is_within_rsvp_cutoff_exclusive(t, event_date) ==
  t > event_date - RsvpCutoffHours * SecondsPerHour

is_within_rsvp_cutoff(t, event_date) ==
  t >= event_date - RsvpCutoffHours * SecondsPerHour

(***************************************************************************)
(* Pydantic validation of a row returned by the store.                     *)
(***************************************************************************)
model_validate(row) == row.status \in RegistrationStatus

(***************************************************************************)
(* Row filters of the repository queries.                                  *)
(***************************************************************************)
get_registration_public_unfiltered(row) == TRUE

get_registration_public_filter(row) ==
  row.status \in {"accepted", "confirmed", "not_attending"}

update_status_filter(row) == TRUE

confirm_registration_unfiltered(row) == TRUE

confirm_registration_filter(row) == row.status = "accepted"

set_not_attending_filter(row) == row.status \in {"accepted", "confirmed"}

\* the update without its condition on checked_in
check_in_filter_by_status(row) == row.status \in {"accepted", "confirmed"}

check_in_filter(row) ==
  row.status \in {"accepted", "confirmed"} /\ row.checked_in = FALSE

\* the row with this id as the store holds it, NoRow when there is none
StoredRow(id) == IF id \in DOMAIN regs THEN regs[id] ELSE NoRow

\* result of a select/update ... returning representation:
\*   "none"  - result.data is empty, the repository returns None
\*   "error" - model_validate raises pydantic.ValidationError
\*   "row"   - a RegistrationResponse
Returned(row, matches) ==
  IF row = NoRow \/ ~matches THEN [kind |-> "none", row |-> NoRow]
  ELSE IF ~model_validate(row) THEN [kind |-> "error", row |-> NoRow]
  ELSE [kind |-> "row", row |-> row]

get_registration_by_id(id) == Returned(StoredRow(id), TRUE)

get_registration_public(id) ==
  Returned(StoredRow(id), get_registration_public_filter(StoredRow(id)))

count_by_event(event_id) ==
  Cardinality({i \in DOMAIN regs : regs[i].event_id = event_id})

get_by_slug(slug) == IF slug \in EventIds THEN events[slug] ELSE NoEvent

get_by_id(event_id) == IF event_id \in EventIds THEN events[event_id] ELSE NoEvent

(***************************************************************************)
(* Requests.                                                               *)
(***************************************************************************)
NewReq(op, id, slug, user, valid) ==
  [op |-> op, id |-> id, slug |-> slug, user |-> user, valid |-> valid,
   pc |-> "done", at |-> now, stored |-> "none", snap |-> NoEvent,
   result |-> "pending", ret |-> NoRow, previous_status |-> "none",
   called |-> FALSE, wrote |-> FALSE, before |-> "none",
   created |-> MissingId, flipped |-> FALSE, meta |-> NoMeta,
   form |-> <<>>, errors |-> <<>>, notified |-> "none",
   ids |-> <<>>, updated |-> {}, upload_session_id |-> "none"]

InFlight == {k \in DOMAIN reqs : reqs[k].pc # "done"}

\* a request that returned without issuing a store write
IsNoOp(q) == q.pc = "done" /\ ~q.called /\ q.created = MissingId

\* reqs keeps, in the order they began, every request that reached a store
\* write and the most recent request that returned without one: such a
\* request leaves the store as it found it, so the next request to begin
\* takes its place in the log.
Kept ==
  IF reqs # <<>> /\ IsNoOp(reqs[Len(reqs)])
  THEN SubSeq(reqs, 1, Len(reqs) - 1) ELSE reqs

Logged(q) == Append(Kept, q)

CanBegin(limit) == Len(Kept) < MaxRequests /\ Cardinality(InFlight) < limit

Ids == DOMAIN regs \cup {MissingId}

\* The staff member of a request.  Staff ids are interchangeable, so the
\* second one is drawn only once the first appears in the store or the log.
UsersSeen ==
  {reqs[k].user : k \in DOMAIN reqs}
    \cup {regs[i].reviewed_by : i \in DOMAIN regs}
    \cup {regs[i].checked_in_by : i \in DOMAIN regs}

Staff == IF "u1" \in UsersSeen THEN Users ELSE {"u1"}

\* The field lists a registration form schema may hold: the one the events
\* are created with, and the one an admin may replace it with.
FieldLists == <<"fields_1", "fields_2">>

\* The events the store may hold when the service starts: a published event
\* without a deadline and with any capacity and auto_accept setting, a
\* published event whose registration deadline is Clock[2], and a draft.
EventConfigs ==
  [status : {"published"}, date_time : EventDateTimes,
   registration_deadline : {NoTime}, max_capacity : 0..MaxCapacity,
   auto_accept : {TRUE}, fields : {FieldLists[1]}]
  \cup
  [status : {"published"}, date_time : EventDateTimes,
   registration_deadline : {NoTime}, max_capacity : {0, 1},
   auto_accept : {FALSE}, fields : {FieldLists[1]}]
  \cup
  [status : {"published"}, date_time : EventDateTimes,
   registration_deadline : {Clock[2]}, max_capacity : {0},
   auto_accept : {FALSE}, fields : {FieldLists[1]}]
  \cup
  [status : {"draft"}, date_time : EventDateTimes,
   registration_deadline : {NoTime}, max_capacity : {0},
   auto_accept : {FALSE}, fields : {FieldLists[1]}]

Ips == {"ip1", "ip2"}
Buckets == {"public_register", "public_rsvp_view"}
Keys == Ips \X Buckets

RateLimits == [limit : 1..MaxLimit, window_seconds : 0..MaxWindowSeconds]

\* the rate_limit module as loaded (_requests = {}), its dependencies made
\* with rl
LimiterIdle(rl) ==
  /\ requests = [key \in Keys |-> <<>>]
  /\ rate_limits = rl
  /\ calls = <<>>

\* no call of validate_form_data
FormIdle ==
  /\ call_form_schema = [fields |-> <<>>]
  /\ call_form_data = <<>>
  /\ call_files_by_field = <<>>
  /\ validation = [pc |-> "idle", errors |-> <<>>]

\* no file uploaded
FilesIdle == registration_files = <<>>

\* the email module as loaded: lock free, _last_email_send_time = 0.0, no
\* thread in send_email; time.time() is at least min_interval past 0
MailIdle ==
  /\ time_time = min_interval
  /\ email_rate_limiter_lock = NoSender
  /\ last_email_send_time = 0
  /\ senders = [th \in Senders |-> IdleSender]

Init ==
  /\ now = Clock[1]
  /\ events \in [EventIds -> EventConfigs]
  /\ regs = <<>>
  /\ reqs = <<>>
  /\ MailIdle
  /\ LimiterIdle([limit |-> MaxLimit, window_seconds |-> MaxWindowSeconds])
  /\ FormIdle
  /\ FilesIdle

Tick ==
  /\ \E i \in 1..(Len(Clock) - 1) : now = Clock[i] /\ now' = Clock[i + 1]
  /\ UNCHANGED <<events, regs, reqs, mailVars, limitVars, formVars, fileVars>>


(***************************************************************************)
(* Completion of a request's store update.  `matches` tells whether the    *)
(* update's filter selected the row, `new` is the row as the update writes *)
(* it; the repository then validates the returned representation, and the  *)
(* service maps an empty result to the error kind `onNone`.                *)
(***************************************************************************)
FinishUpdate(k, matches, new, onNone) ==
  LET id == reqs[k].id
      res == Returned(new, matches)
  IN /\ regs' = IF matches THEN [regs EXCEPT ![id] = new] ELSE regs
     /\ reqs' = [reqs EXCEPT ![k] =
          [@ EXCEPT !.pc = "done", !.called = TRUE, !.wrote = matches,
                    !.before = StoredRow(id).status,
                    !.result = CASE res.kind = "row" -> "ok"
                                 [] res.kind = "none" -> onNone
                                 [] OTHER -> "ValidationError",
                    !.ret = res.row]]
     /\ UNCHANGED <<now, events, mailVars, limitVars, formVars, fileVars>>

(***************************************************************************)
(* Review: accept_application / reject_application.                        *)
(***************************************************************************)
is_submitted_always(status) == TRUE

is_submitted(status) == status = "submitted"

ReviewRead(op, limit) ==
  \E id \in Ids, u \in Staff :
    /\ CanBegin(limit)
    /\ LET got == get_registration_by_id(id)
           q0 == [NewReq(op, id, "none", u, TRUE) EXCEPT
                    !.stored = StoredRow(id).status]
           q == CASE got.kind = "none" -> [q0 EXCEPT !.result = "NotFound"]
                  [] got.kind = "error" -> [q0 EXCEPT !.result = "ValidationError"]
                  [] ~is_submitted(got.row.status) -> [q0 EXCEPT !.result = "InvalidState"]
                  [] OTHER -> [q0 EXCEPT !.pc = "update_status"]
       IN reqs' = Logged(q)
    /\ UNCHANGED <<now, events, regs, mailVars, limitVars, formVars, fileVars>>

update_status(k, status) ==
  LET row == StoredRow(reqs[k].id)
      new == [row EXCEPT !.status = status, !.reviewed_by = reqs[k].user,
                         !.reviewed_at = now]
  IN FinishUpdate(k, row # NoRow /\ update_status_filter(row), new,
                  "PersistenceFailure")

accept_application_read(limit) == ReviewRead("accept", limit)

accept_application_write ==
  \E k \in DOMAIN reqs :
    /\ reqs[k].op = "accept" /\ reqs[k].pc = "update_status"
    /\ update_status(k, "accepted")

reject_application_read(limit) == ReviewRead("reject", limit)

reject_application_write ==
  \E k \in DOMAIN reqs :
    /\ reqs[k].op = "reject" /\ reqs[k].pc = "update_status"
    /\ update_status(k, "rejected")

(***************************************************************************)
(* RSVP: rsvp_confirm / rsvp_decline.  The decision is the outcome of the  *)
(* checks the service makes between the reads and the store update.        *)
(***************************************************************************)
rsvp_decision(got, ev, t, target, sources) ==
  CASE got.kind = "none" -> "NotAccessible"
    [] got.kind = "error" -> "ValidationError"
    [] ev = NoEvent -> "NotFound"
    [] has_event_passed(t, ev.date_time) -> "EventPassed"
    [] is_within_rsvp_cutoff(t, ev.date_time) -> "CutoffPassed"
    [] got.row.status = target -> "idempotent"
    [] got.row.status \notin sources -> "NotEligible"
    [] OTHER -> "proceed"

rsvp_confirm_decision_not_idempotent(got, ev, t) ==
  rsvp_decision(got, ev, t, "none", {"accepted"})

rsvp_confirm_decision(got, ev, t) ==
  rsvp_decision(got, ev, t, "confirmed", {"accepted"})

rsvp_decline_decision(got, ev, t) ==
  rsvp_decision(got, ev, t, "not_attending", {"accepted", "confirmed"})

RsvpRead(op, nextpc, limit) ==
  \E id \in Ids :
    /\ CanBegin(limit)
    /\ LET got == get_registration_public(id)
           ev == get_by_id(got.row.event_id)
           decision == IF op = "confirm"
                       THEN rsvp_confirm_decision(got, ev, now)
                       ELSE rsvp_decline_decision(got, ev, now)
           q0 == [NewReq(op, id, "none", NoUser, TRUE) EXCEPT
                    !.stored = StoredRow(id).status,
                    !.previous_status =
                        IF op = "decline" /\ got.kind = "row"
                        THEN got.row.status ELSE "none"]
           q == CASE decision = "idempotent" ->
                       [q0 EXCEPT !.result = "ok", !.ret = got.row]
                  [] decision = "proceed" -> [q0 EXCEPT !.pc = nextpc]
                  [] OTHER -> [q0 EXCEPT !.result = decision]
       IN reqs' = Logged(q)
    /\ UNCHANGED <<now, events, regs, mailVars, limitVars, formVars, fileVars>>


rsvp_confirm_read(limit) ==
  RsvpRead("confirm", "confirm_registration", limit)

rsvp_confirm_write ==
  \E k \in DOMAIN reqs :
    /\ reqs[k].op = "confirm" /\ reqs[k].pc = "confirm_registration"
    /\ LET row == StoredRow(reqs[k].id)
           new == [row EXCEPT !.status = "confirmed", !.confirmed_at = now]
       IN FinishUpdate(k, row # NoRow /\ confirm_registration_filter(row),
                       new, "PersistenceFailure")

rsvp_decline_read(limit) ==
  RsvpRead("decline", "set_not_attending", limit)

rsvp_decline_write ==
  \E k \in DOMAIN reqs :
    /\ reqs[k].op = "decline" /\ reqs[k].pc = "set_not_attending"
    /\ LET row == StoredRow(reqs[k].id)
           new == [row EXCEPT !.status = "not_attending", !.confirmed_at = now]
       IN FinishUpdate(k, row # NoRow /\ set_not_attending_filter(row),
                       new, "PersistenceFailure")

(***************************************************************************)
(* RSVP details: rsvp_details.  The metadata is computed from the row and  *)
(* the event as read, and nothing is written.                              *)
(***************************************************************************)
\* metadata whose flags leave the 24-hour cutoff out
rsvp_metadata_without_cutoff(current_status, t, event_date) ==
  LET event_has_passed == has_event_passed(t, event_date)
      is_final == current_status \in {"not_attending", "rejected"}
  IN [current_status |-> current_status,
      can_confirm |-> current_status = "accepted" /\ ~event_has_passed /\ ~is_final,
      can_decline |-> /\ current_status \in {"accepted", "confirmed"}
                      /\ ~event_has_passed /\ ~is_final,
      is_final |-> is_final,
      event_has_passed |-> event_has_passed,
      within_rsvp_cutoff |-> is_within_rsvp_cutoff(t, event_date)]

rsvp_metadata(current_status, t, event_date) ==
  LET event_has_passed == has_event_passed(t, event_date)
      within_rsvp_cutoff == is_within_rsvp_cutoff(t, event_date)
      is_final == current_status \in {"not_attending", "rejected"}
  IN [current_status |-> current_status,
      can_confirm |-> /\ current_status = "accepted" /\ ~event_has_passed
                      /\ ~within_rsvp_cutoff /\ ~is_final,
      can_decline |-> /\ current_status \in {"accepted", "confirmed"}
                      /\ ~event_has_passed /\ ~within_rsvp_cutoff /\ ~is_final,
      is_final |-> is_final,
      event_has_passed |-> event_has_passed,
      within_rsvp_cutoff |-> within_rsvp_cutoff]

rsvp_details(limit) ==
  \E id \in Ids :
    /\ CanBegin(limit)
    /\ LET got == get_registration_public(id)
           ev == get_by_id(got.row.event_id)
           q0 == [NewReq("details", id, "none", NoUser, TRUE) EXCEPT
                    !.stored = StoredRow(id).status]
           q == CASE got.kind = "none" -> [q0 EXCEPT !.result = "NotAccessible"]
                  [] got.kind = "error" -> [q0 EXCEPT !.result = "ValidationError"]
                  [] ev = NoEvent -> [q0 EXCEPT !.result = "NotFound"]
                  [] OTHER ->
                       [q0 EXCEPT !.result = "ok", !.ret = got.row,
                                  !.meta = rsvp_metadata(got.row.status, now,
                                                         ev.date_time)]
       IN reqs' = Logged(q)
    /\ UNCHANGED <<now, events, regs, mailVars, limitVars, formVars, fileVars>>

(***************************************************************************)
(* Attendance: check_in_attendee.                                          *)
(***************************************************************************)
is_check_in_eligible(status) == status \in {"accepted", "confirmed"}

check_in_attendee_read(limit) ==
  \E id \in Ids, u \in Staff :
    /\ CanBegin(limit)
    /\ LET got == get_registration_by_id(id)
           q0 == [NewReq("check_in", id, "none", u, TRUE) EXCEPT
                    !.stored = StoredRow(id).status]
           q == CASE got.kind = "none" -> [q0 EXCEPT !.result = "NotFound"]
                  [] got.kind = "error" -> [q0 EXCEPT !.result = "ValidationError"]
                  [] ~is_check_in_eligible(got.row.status) ->
                       [q0 EXCEPT !.result = "InvalidState"]
                  [] OTHER -> [q0 EXCEPT !.pc = "check_in"]
       IN reqs' = Logged(q)
    /\ UNCHANGED <<now, events, regs, mailVars, limitVars, formVars, fileVars>>

check_in_attendee_write ==
  \E k \in DOMAIN reqs :
    /\ reqs[k].op = "check_in" /\ reqs[k].pc = "check_in"
    /\ LET row == StoredRow(reqs[k].id)
           new == [row EXCEPT !.checked_in = TRUE, !.checked_in_at = now,
                              !.checked_in_by = reqs[k].user]
       IN FinishUpdate(k, row # NoRow /\ check_in_filter(row), new, "Conflict")

(***************************************************************************)
(* Attendance: bulk_check_in.  The service reads the registrations of the  *)
(* request one after another and then issues one update for all of them.   *)
(***************************************************************************)
\* the lists of registration ids of a bulk request
BulkIds == UNION {[1..n -> Ids] : n \in 0..MaxBulk}

\* the read of the n-th registration of the list by request q
bulk_check_in_get(q, n) ==
  LET got == get_registration_by_id(q.ids[n])
  IN CASE got.kind = "none" -> [q EXCEPT !.pc = "done", !.result = "NotFound"]
       [] got.kind = "error" -> [q EXCEPT !.pc = "done", !.result = "ValidationError"]
       [] ~is_check_in_eligible(got.row.status) ->
            [q EXCEPT !.pc = "done", !.result = "InvalidState"]
       [] n < Len(q.ids) -> [q EXCEPT !.pc = "get_registration_by_id", !.id = n + 1]
       [] OTHER -> [q EXCEPT !.pc = "bulk_check_in"]

\* the request begins: its first store call is the read of its first id; a
\* request with an empty list returns without a store call
bulk_check_in_begin(limit) ==
  \E ids \in BulkIds, u \in Staff :
    /\ CanBegin(limit)
    /\ LET q0 == [NewReq("bulk_check_in", 1, "none", u, TRUE) EXCEPT !.ids = ids]
       IN reqs' = Logged(IF ids = <<>> THEN [q0 EXCEPT !.result = "ok"]
                         ELSE bulk_check_in_get(q0, 1))
    /\ UNCHANGED <<now, events, regs, mailVars, limitVars, formVars, fileVars>>

\* the read of the next id of the list; id counts the reads
bulk_check_in_read ==
  \E k \in DOMAIN reqs :
    /\ reqs[k].op = "bulk_check_in" /\ reqs[k].pc = "get_registration_by_id"
    /\ reqs' = [reqs EXCEPT ![k] = bulk_check_in_get(@, @.id)]
    /\ UNCHANGED <<now, events, regs, mailVars, limitVars, formVars, fileVars>>

\* AttendanceRepository.bulk_check_in: one update of every row of the list
\* that the filter selects; the rows it returns are validated
bulk_check_in_write ==
  \E k \in DOMAIN reqs :
    /\ reqs[k].op = "bulk_check_in" /\ reqs[k].pc = "bulk_check_in"
    /\ LET listed == {reqs[k].ids[n] : n \in DOMAIN reqs[k].ids}
           updated == {id \in listed \cap DOMAIN regs : check_in_filter(regs[id])}
       IN /\ regs' = [id \in DOMAIN regs |->
                        IF id \in updated
                        THEN [regs[id] EXCEPT !.checked_in = TRUE,
                                              !.checked_in_at = now,
                                              !.checked_in_by = reqs[k].user]
                        ELSE regs[id]]
          /\ reqs' = [reqs EXCEPT ![k] =
               [@ EXCEPT !.pc = "done", !.called = TRUE, !.wrote = updated # {},
                         !.updated = updated,
                         !.result = IF \A id \in updated : model_validate(regs[id])
                                    THEN "ok" ELSE "ValidationError"]]
    /\ UNCHANGED <<now, events, mailVars, limitVars, formVars, fileVars>>

(***************************************************************************)
(* Submission: submit_registration.  A submitted form gives, for every    *)
(* field of the event's form schema, whether the value and files sent for *)
(* it pass the field's validators; validate_form_data goes through the    *)
(* fields in schema order and collects an error for each one that fails.  *)
(***************************************************************************)
FormFieldIds == <<"name", "resume">>

Forms == [{FormFieldIds[i] : i \in DOMAIN FormFieldIds} -> BOOLEAN]

validate_form_data(form) ==
  SelectSeq(FormFieldIds, LAMBDA field_id : ~form[field_id])

deadline_passed_inclusive(t, ev) ==
  ev.registration_deadline # NoTime /\ t >= ev.registration_deadline

deadline_passed(t, ev) ==
  ev.registration_deadline # NoTime /\ t > ev.registration_deadline

\* every registration is created accepted
decide_initial_status_accepted(auto_accept) == "accepted"

decide_initial_status(auto_accept) ==
  IF auto_accept THEN "accepted" ELSE "submitted"

capacity_exceeded(registration_count, max_capacity) ==
  registration_count > max_capacity

capacity_reached(registration_count, max_capacity) ==
  registration_count >= max_capacity

\* the schema written back without a change
schema_unchanged(form_schema) == form_schema

\* form_schema.model_copy(update={"auto_accept": False})
updated_schema(form_schema) == [form_schema EXCEPT !.auto_accept = FALSE]

(***************************************************************************)
(* Files: upload_file and link_files_to_registration.  A row of            *)
(* registration_files carries the upload session it was uploaded in, its   *)
(* event, and, once linked, its registration and scheduled deletion date.  *)
(***************************************************************************)
UploadSessions == <<"s1", "s2">>

ALLOWED_TYPES == {"application/pdf"}

\* the sessions some stored file was uploaded in
SessionsWithFiles ==
  {registration_files[i].upload_session_id : i \in DOMAIN registration_files}

\* The upload session of a submission.  Sessions without files are
\* interchangeable, so only the first of them is drawn.
SessionsDrawn ==
  {UploadSessions[n] : n \in {n \in DOMAIN UploadSessions :
     \/ UploadSessions[n] \in SessionsWithFiles
     \/ \A m \in 1..(n - 1) : UploadSessions[m] \in SessionsWithFiles}}

\* upload_file: _get_event_or_404, the size and type checks, and
\* create_file_record; a refused upload leaves the store as it is
upload_file ==
  \E slug \in Slugs, n \in DOMAIN UploadSessions,
     file_size \in {MAX_FILE_SIZE, MAX_FILE_SIZE + 1},
     mime_type \in {"application/pdf", "application/msword"} :
    /\ Len(registration_files) < MaxUploads
    /\ LET ev == get_by_slug(slug)
           refused == \/ ev = NoEvent \/ ev.status # "published"
                      \/ file_size > MAX_FILE_SIZE
                      \/ mime_type \notin ALLOWED_TYPES
       IN registration_files' =
            IF refused THEN registration_files
            ELSE Append(registration_files,
                        [upload_session_id |-> UploadSessions[n],
                         event_id |-> slug, registration_id |-> MissingId,
                         scheduled_deletion_date |-> NoTime])
    /\ UNCHANGED <<storeVars, mailVars, limitVars, formVars>>

\* .eq("upload_session_id", upload_session_id)
link_files_filter(file_meta, upload_session_id) ==
  file_meta.upload_session_id = upload_session_id

\* event_date.date() + timedelta(days=30), in days
deletion_date(event_date) ==
  event_date \div (24 * SecondsPerHour) + RetentionDays

link_files_to_registration(upload_session_id, registration_id, event_date) ==
  [i \in DOMAIN registration_files |->
     IF link_files_filter(registration_files[i], upload_session_id)
     THEN [registration_files[i] EXCEPT
             !.registration_id = registration_id,
             !.scheduled_deletion_date = deletion_date(event_date)]
     ELSE registration_files[i]]

submit_registration_read(limit) ==
  \E slug \in Slugs, form \in Forms, upload_session_id \in SessionsDrawn :
    /\ CanBegin(limit)
    /\ LET ev == get_by_slug(slug)
           errors == validate_form_data(form)
           q0 == [NewReq("submit", MissingId, slug, NoUser, errors = <<>>)
                    EXCEPT !.upload_session_id =
                             IF ev = NoEvent \/ ev.status # "published"
                                \/ deadline_passed(now, ev) \/ errors # <<>>
                             THEN "none" ELSE upload_session_id]
           q == CASE ev = NoEvent -> [q0 EXCEPT !.result = "NotFound"]
                  [] ev.status # "published" -> [q0 EXCEPT !.result = "InvalidState"]
                  [] deadline_passed(now, ev) -> [q0 EXCEPT !.result = "DeadlinePassed"]
                  [] errors # <<>> ->
                       [q0 EXCEPT !.result = "ValidationFailed", !.form = form,
                                  !.errors = errors]
                  [] OTHER -> [q0 EXCEPT !.pc = "create_registration", !.snap = ev]
       IN reqs' = Logged(q)
    /\ UNCHANGED <<now, events, regs, mailVars, limitVars, formVars, fileVars>>

\* create_registration, then link_files_to_registration (the update of
\* every file of the request's upload session), then the two local early
\* returns of _disable_auto_accept_if_capacity_reached
submit_registration_create ==
  \E k \in DOMAIN reqs :
    /\ reqs[k].op = "submit" /\ reqs[k].pc = "create_registration"
    /\ LET snap == reqs[k].snap
           row == [NoRow EXCEPT !.event_id = reqs[k].slug,
                                !.status = decide_initial_status(snap.auto_accept)]
           id == Len(regs) + 1
           counts == snap.max_capacity # 0 /\ snap.auto_accept
       IN /\ regs' = Append(regs, row)
          /\ registration_files' =
               link_files_to_registration(reqs[k].upload_session_id, id,
                                          snap.date_time)
          /\ reqs' = [reqs EXCEPT ![k] =
               [@ EXCEPT !.created = id, !.ret = row, !.wrote = TRUE,
                         !.pc = IF counts THEN "count_by_event" ELSE "done",
                         !.result = IF counts THEN "pending" ELSE "ok"]]
    /\ UNCHANGED <<now, events, mailVars, limitVars, formVars>>

submit_registration_count ==
  \E k \in DOMAIN reqs :
    /\ reqs[k].op = "submit" /\ reqs[k].pc = "count_by_event"
    /\ LET reached == capacity_reached(count_by_event(reqs[k].slug),
                                       reqs[k].snap.max_capacity)
       IN reqs' = [reqs EXCEPT ![k] =
            [@ EXCEPT !.pc = IF reached THEN "update_form_schema" ELSE "done",
                      !.result = IF reached THEN "pending" ELSE "ok"]]
    /\ UNCHANGED <<now, events, regs, mailVars, limitVars, formVars, fileVars>>

\* update_form_schema with model_copy(update={"auto_accept": False}) of the
\* schema read at the start of the request
submit_registration_flip ==
  \E k \in DOMAIN reqs :
    /\ reqs[k].op = "submit" /\ reqs[k].pc = "update_form_schema"
    /\ events' = [events EXCEPT ![reqs[k].slug] =
         [@ EXCEPT !.auto_accept = updated_schema(reqs[k].snap).auto_accept,
                   !.fields = updated_schema(reqs[k].snap).fields]]
    /\ reqs' = [reqs EXCEPT ![k] =
         [@ EXCEPT !.pc = "done", !.result = "ok", !.flipped = TRUE]]
    /\ UNCHANGED <<now, regs, mailVars, limitVars, formVars, fileVars>>

(***************************************************************************)
(* Event administration: update_event with a registration_form_schema.    *)
(* The update writes the schema of the request whatever get_by_id read.    *)
(***************************************************************************)
update_event(limit) ==
  \E e \in EventIds, auto_accept \in BOOLEAN, i \in DOMAIN FieldLists :
    /\ CanBegin(limit)
    /\ get_by_id(e) # NoEvent
    /\ events' = [events EXCEPT ![e] =
         [@ EXCEPT !.auto_accept = auto_accept, !.fields = FieldLists[i]]]
    /\ reqs' = Logged([NewReq("update_event", MissingId, e, NoUser, TRUE)
                         EXCEPT !.result = "ok", !.called = TRUE])
    /\ UNCHANGED <<now, regs, mailVars, limitVars, formVars, fileVars>>

(***************************************************************************)
(* Notifications.  The route queues the send_*_email method of the        *)
(* service as a background task once the operation has returned; the task *)
(* runs after the response.  The provider accepts the email, or the send  *)
(* returns False, or an exception is raised inside the task; the task     *)
(* catches it, logs and returns None.                                     *)
(***************************************************************************)
SendOutcomes == {"sent", "failed", "raised"}

NotifyingOps == {"submit", "accept", "reject", "confirm", "decline"}

\* the task lets an exception of the send reach the operation's result
result_after_send_uncaught(result, outcome) ==
  IF outcome = "raised" THEN "EmailError" ELSE result

\* the result of the operation once its notification task has run
result_after_send(result, outcome) == result

send_notification ==
  \E k \in DOMAIN reqs, outcome \in SendOutcomes :
    /\ reqs[k].op \in NotifyingOps
    /\ reqs[k].pc = "done" /\ reqs[k].result = "ok"
    /\ reqs[k].notified = "none"
    /\ reqs' = [reqs EXCEPT ![k] =
         [@ EXCEPT !.notified = outcome,
                   !.result = result_after_send(@, outcome)]]
    /\ UNCHANGED <<now, events, regs, mailVars, limitVars, formVars, fileVars>>

(***************************************************************************)
(* Email: EmailService.send_email.  Every thread that sends an email      *)
(* passes the module-global rate limiter: under _email_rate_limiter_lock  *)
(* it reads the clock, sleeps for what is missing of min_interval since   *)
(* _last_email_send_time, and stores the clock as the new                 *)
(* _last_email_send_time; it releases the lock and then calls the         *)
(* provider.  time.sleep returns no earlier than asked.                   *)
(***************************************************************************)
send_email_start ==
  \E th \in Senders :
    /\ senders[th].pc = "start"
    /\ email_rate_limiter_lock = NoSender
    /\ email_rate_limiter_lock' = th
    /\ LET time_since_last == time_time - last_email_send_time
       IN senders' = [senders EXCEPT ![th] =
            IF time_since_last < min_interval
            THEN [@ EXCEPT !.pc = "sleep",
                           !.wake_at = time_time + (min_interval - time_since_last)]
            ELSE [@ EXCEPT !.pc = "stamp"]]
    /\ UNCHANGED <<storeVars, limitVars, formVars, fileVars, time_time, last_email_send_time>>

send_email_sleep ==
  \E th \in Senders :
    /\ senders[th].pc = "sleep"
    /\ time_time >= senders[th].wake_at
    /\ senders' = [senders EXCEPT ![th].pc = "stamp"]
    /\ UNCHANGED <<storeVars, limitVars, formVars, fileVars, time_time, email_rate_limiter_lock, last_email_send_time>>

\* _last_email_send_time = time.time(), and the with block ends
send_email_stamp ==
  \E th \in Senders :
    /\ senders[th].pc = "stamp"
    /\ last_email_send_time' = time_time
    /\ email_rate_limiter_lock' = release_lock(th)
    /\ senders' = [senders EXCEPT ![th] = [@ EXCEPT !.pc = "send", !.stamp = time_time]]
    /\ UNCHANGED <<storeVars, limitVars, formVars, fileVars, time_time>>

\* resend.Emails.send(params)
send_email_send ==
  \E th \in Senders :
    /\ senders[th].pc = "send"
    /\ senders' = [senders EXCEPT ![th] = [@ EXCEPT !.pc = "done", !.sent_at = time_time]]
    /\ UNCHANGED <<storeVars, limitVars, formVars, fileVars, time_time, email_rate_limiter_lock, last_email_send_time>>

TickTime ==
  /\ time_time < MaxTime
  /\ time_time' = time_time + 1
  /\ UNCHANGED <<storeVars, limitVars, formVars, fileVars, email_rate_limiter_lock, last_email_send_time, senders>>

NextMail ==
  \/ TickTime
  \/ send_email_start
  \/ send_email_sleep
  \/ send_email_stamp
  \/ send_email_send

\* a store without events or registrations, and no request
StoreIdle ==
  /\ now = Clock[1]
  /\ events = [e \in EventIds |-> NoEvent]
  /\ regs = <<>>
  /\ reqs = <<>>

InitMail ==
  /\ StoreIdle
  /\ MailIdle
  /\ LimiterIdle([limit |-> MaxLimit, window_seconds |-> MaxWindowSeconds])
  /\ FormIdle
  /\ FilesIdle

\* threads sending one email each while the store is idle
SpecMail == InitMail /\ [][NextMail]_vars

(***************************************************************************)
(* Request rate limiting: the dependency rate_limit(bucket, limit,        *)
(* window_seconds) of the public routes.  _enforce has no await, so a     *)
(* call runs as one step of the event loop.                               *)
(***************************************************************************)
limit_exceeded(n, limit) == n > limit

limit_reached(n, limit) == n >= limit

\* while q and q[0] < window_start: q.popleft()
drop_old(q, window_start) ==
  LET kept == {i \in DOMAIN q : ~(q[i] < window_start)}
      first == IF kept = {} THEN Len(q) + 1
               ELSE CHOOSE i \in kept : \A j \in kept : i <= j
  IN SubSeq(q, first, Len(q))

enforce ==
  \E ip \in Ips, bucket \in Buckets :
    /\ Len(calls) < MaxCalls
    /\ LET key == <<ip, bucket>>
           t == time_time
           window_start == t - rate_limits.window_seconds * TicksPerSecond
           q == drop_old(requests[key], window_start)
           refused == limit_reached(Len(q), rate_limits.limit)
       IN /\ requests' = [requests EXCEPT ![key] =
                            IF refused THEN q ELSE Append(q, t)]
          /\ calls' = Append(calls, [key |-> key, at |-> t,
                                     status |-> IF refused THEN 429 ELSE 200])
    /\ UNCHANGED <<storeVars, mailVars, formVars, fileVars, rate_limits>>

InitLimit ==
  /\ StoreIdle
  /\ MailIdle
  /\ \E rl \in RateLimits : LimiterIdle(rl)
  /\ FormIdle
  /\ FilesIdle

NextLimit == TickTime \/ enforce

\* calls of rate-limited routes from several clients
SpecLimit == InitLimit /\ [][NextLimit]_vars

(***************************************************************************)
(* Specifications.                                                         *)
(***************************************************************************)
\* submission, review and RSVP requests
LifecycleStep(limit) ==
  \/ Tick
  \/ submit_registration_read(limit)
  \/ submit_registration_create
  \/ submit_registration_count
  \/ submit_registration_flip
  \/ accept_application_read(limit)
  \/ accept_application_write
  \/ reject_application_read(limit)
  \/ reject_application_write
  \/ rsvp_confirm_read(limit)
  \/ rsvp_confirm_write
  \/ rsvp_decline_read(limit)
  \/ rsvp_decline_write

\* check-in requests
AttendanceStep(limit) ==
  \/ check_in_attendee_read(limit)
  \/ check_in_attendee_write

Next == LifecycleStep(MaxInFlight)

NextSeq == LifecycleStep(1) \/ AttendanceStep(1)

NextEdit ==
  \/ LifecycleStep(MaxInFlight)
  \/ update_event(MaxInFlight)

\* The instants of the RSVP window of the event at 86402: 24 hours and one
\* second before it, exactly 24 hours before it, one second later, the
\* instant of the event and the second after it.
RsvpClock == <<1, 2, 3, 86402, 86403>>

TickRsvp ==
  /\ \E i \in 1..(Len(RsvpClock) - 1) : now = RsvpClock[i] /\ now' = RsvpClock[i + 1]
  /\ UNCHANGED <<events, regs, reqs, mailVars, limitVars, formVars, fileVars>>

\* The rows the store may hold once submissions, reviews and RSVPs have
\* run: one row per status, stamped as the request that wrote the status
\* stamps it.
StoredRows ==
  {[NoRow EXCEPT !.event_id = "e1", !.status = "submitted"],
   [NoRow EXCEPT !.event_id = "e1", !.status = "accepted"],
   [NoRow EXCEPT !.event_id = "e1", !.status = "rejected",
                 !.reviewed_by = "u1", !.reviewed_at = 0],
   [NoRow EXCEPT !.event_id = "e1", !.status = "confirmed", !.confirmed_at = 0],
   [NoRow EXCEPT !.event_id = "e1", !.status = "not_attending",
                 !.confirmed_at = 0]}

\* a store with one registration of a published event
InitRsvp ==
  /\ now = RsvpClock[1]
  /\ events \in [EventIds -> {c \in EventConfigs :
                                 /\ c.status = "published"
                                 /\ c.registration_deadline = NoTime
                                 /\ c.max_capacity = 0}]
  /\ regs \in {<<row>> : row \in StoredRows}
  /\ reqs = <<>>
  /\ MailIdle
  /\ LimiterIdle([limit |-> MaxLimit, window_seconds |-> MaxWindowSeconds])
  /\ FormIdle
  /\ FilesIdle

\* the wall clock passes from one instant to the next while the event's
\* attendees are checked in
TickCheckIn ==
  /\ now = Clock[2] /\ now' = Clock[3]
  /\ UNCHANGED <<events, regs, reqs, mailVars, limitVars, formVars, fileVars>>

NextCheckIn ==
  \/ TickCheckIn
  \/ check_in_attendee_read(MaxInFlight)
  \/ check_in_attendee_write
  \/ bulk_check_in_begin(MaxInFlight)
  \/ bulk_check_in_read
  \/ bulk_check_in_write

\* a store with one registration that may be checked in, at Clock[2]
InitCheckIn == InitRsvp /\ is_check_in_eligible(regs[1].status)

\* concurrent single and bulk check-in requests on a stored registration
SpecCheckIn == InitCheckIn /\ [][NextCheckIn]_vars

NextReview ==
  \/ accept_application_read(MaxInFlight)
  \/ accept_application_write
  \/ reject_application_read(MaxInFlight)
  \/ reject_application_write
  \/ rsvp_confirm_read(MaxInFlight)
  \/ rsvp_confirm_write
  \/ rsvp_decline_read(MaxInFlight)
  \/ rsvp_decline_write

\* concurrent review and RSVP requests on a stored registration, more than
\* 24 hours before the event
SpecReview == InitRsvp /\ [][NextReview]_vars

NextRsvp ==
  \/ TickRsvp
  \/ rsvp_details(1)
  \/ rsvp_confirm_read(1)
  \/ rsvp_confirm_write
  \/ rsvp_decline_read(1)
  \/ rsvp_decline_write

\* public RSVP requests on a stored registration, one after another, at
\* the instants around the 24-hour cutoff and the event
SpecRsvp == InitRsvp /\ [][NextRsvp]_vars

NextNotify ==
  \/ submit_registration_read(1)
  \/ submit_registration_create
  \/ submit_registration_count
  \/ submit_registration_flip
  \/ accept_application_read(1)
  \/ accept_application_write
  \/ reject_application_read(1)
  \/ reject_application_write
  \/ rsvp_confirm_read(1)
  \/ rsvp_confirm_write
  \/ rsvp_decline_read(1)
  \/ rsvp_decline_write
  \/ send_notification

\* requests one after another while the RSVP window is open, the
\* notification of each sent in the background while later requests run
SpecNotify == Init /\ [][NextNotify]_vars

NextFiles ==
  \/ upload_file
  \/ submit_registration_read(MaxInFlight)
  \/ submit_registration_create
  \/ submit_registration_count
  \/ submit_registration_flip

\* uploads of files in upload sessions and concurrent submissions that
\* name an upload session
SpecFiles == Init /\ [][NextFiles]_vars

\* concurrent submission, review and RSVP requests
Spec == Init /\ [][Next]_vars

\* every request, check-in included, runs to completion before the next begins
SpecSeq == Init /\ [][NextSeq]_vars

\* concurrent submission, review and RSVP requests and edits of the event's
\* form schema by an admin
SpecEdit == Init /\ [][NextEdit]_vars

(***************************************************************************)
(* Form validation: RegistrationService.validate_form_data.                *)
(*                                                                         *)
(* A JSON value of form_data is a record: kind is "none" (the key is       *)
(* absent or null: form_data.get gives None for both), "str" with its      *)
(* characters, "list" with its items, or "int" with its number.  A field   *)
(* of the schema is a record of its id, type, required flag, validation    *)
(* parameters and options; NoLimit stands for a parameter that is not set, *)
(* and an empty pattern, option list or allowedTypes list for one that is  *)
(* not set or empty (the code treats both alike).                          *)
(***************************************************************************)
NoLimit == -1

None == [kind |-> "none", chars |-> <<>>, items |-> <<>>, n |-> 0]

Str(chars) == [kind |-> "str", chars |-> chars, items |-> <<>>, n |-> 0]

List(items) == [kind |-> "list", chars |-> <<>>, items |-> items, n |-> 0]

Num(n) == [kind |-> "int", chars |-> <<>>, items |-> <<>>, n |-> n]

\* Python truth value of a JSON value: `not value`
falsy(value) ==
  \/ value.kind = "none"
  \/ value.kind = "str" /\ value.chars = <<>>
  \/ value.kind = "list" /\ value.items = <<>>
  \/ value.kind = "int" /\ value.n = 0

\* re.match(pattern, value) for a pattern of literal characters: the
\* pattern has to match at the start of the value, not the whole of it
re_match(pattern, chars) ==
  Len(chars) >= Len(pattern) /\ SubSeq(chars, 1, Len(pattern)) = pattern

Error(field, message) == [field |-> field.id, message |-> message]

\* the errors of seq whose condition holds, in order
Collect(checks) ==
  LET f[i \in 0..Len(checks)] ==
        IF i = 0 THEN <<>>
        ELSE IF checks[i].failed THEN Append(f[i - 1], checks[i].error)
        ELSE f[i - 1]
  IN f[Len(checks)]

validate_text(field, value) ==
  IF value.kind # "str"
  THEN <<Error(field, "must be a string")>>
  ELSE Collect(<<
         [failed |-> field.minLength # NoLimit /\ Len(value.chars) < field.minLength,
          error |-> Error(field, "must be at least minLength characters")],
         [failed |-> field.maxLength # NoLimit /\ Len(value.chars) > field.maxLength,
          error |-> Error(field, "must be at most maxLength characters")],
         [failed |-> field.pattern # <<>> /\ ~re_match(field.pattern, value.chars),
          error |-> Error(field, "is in an invalid format")]>>)

InOptions(value, options) ==
  \E i \in DOMAIN options : options[i] = value.chars

validate_choice(field, value) ==
  IF value.kind # "str"
  THEN <<Error(field, "must be a string")>>
  ELSE IF ~InOptions(value, field.options)
  THEN <<Error(field, "must be one of the allowed options")>>
  ELSE <<>>

validate_checkboxes(field, value) ==
  IF value.kind # "list"
  THEN <<Error(field, "must be an array")>>
  ELSE LET invalid == SelectSeq(value.items,
                        LAMBDA v : v.kind # "str" \/ ~InOptions(v, field.options))
       IN IF invalid # <<>>
          THEN <<Error(field, "has invalid selections")>>
          ELSE <<>>

\* for every file, in order, its size error and then its type error
validate_files(field, files) ==
  Collect([j \in 1..(2 * Len(files)) |->
    LET file_meta == files[(j + 1) \div 2]
    IN IF j % 2 = 1
       THEN [failed |-> field.maxSize # NoLimit /\ file_meta.file_size > field.maxSize,
             error |-> Error(field, "must be <= maxSize bytes")]
       ELSE [failed |-> /\ field.allowedTypes # <<>>
                        /\ \A k \in DOMAIN field.allowedTypes :
                             field.allowedTypes[k] # file_meta.mime_type,
             error |-> Error(field, "must be one of: allowedTypes")]])

\* the field goes on to its validator although it is missing
is_missing_required_never(field_type, required, value, files) == FALSE

is_missing_required(field_type, required, value, files) ==
  IF ~required THEN FALSE
  ELSE IF field_type = "file" THEN files = <<>>
  ELSE \/ value.kind = "none"
       \/ value = Str(<<>>)
       \/ field_type = "checkbox" /\ falsy(value)

\* one pass of the loop over the fields of the schema
validate_field(field, value, files) ==
  IF is_missing_required(field.type, field.required, value, files)
  THEN <<Error(field, "This field is required")>>
  ELSE IF value.kind = "none" /\ files = <<>> THEN <<>>
  ELSE CASE field.type \in {"text", "textarea"} -> validate_text(field, value)
         [] field.type \in {"select", "radio"} -> validate_choice(field, value)
         [] field.type = "checkbox" -> validate_checkboxes(field, value)
         [] field.type = "file" -> validate_files(field, files)
         [] OTHER -> <<>>

\* validate_form_data(form_data, form_schema, files_by_field): the errors of
\* the fields, in the order of the schema
validate(form_data, form_schema, files_by_field) ==
  LET fields == form_schema.fields
      errors[i \in 0..Len(fields)] ==
        IF i = 0 THEN <<>>
        ELSE errors[i - 1] \o validate_field(fields[i], form_data[fields[i].id],
                                             files_by_field[fields[i].id])
  IN errors[Len(fields)]

(***************************************************************************)
(* The schemas, form data and files validate_form_data is called with.     *)
(***************************************************************************)
Chars == {"a", "b"}

\* the strings of at most MaxChars characters
Strings == UNION {[1..n -> Chars] : n \in 0..MaxChars}

Items == {Str(<<"a">>), Str(<<"b">>), Num(1)}

Values ==
  {None, Num(0), Num(1)}
    \cup {Str(s) : s \in Strings}
    \cup {List(l) : l \in UNION {[1..n -> Items] : n \in 0..MaxItems}}

FileMetas ==
  [file_size : 1..MaxFileSize,
   mime_type : {"application/pdf", "application/msword"}]

FileLists == UNION {[1..n -> FileMetas] : n \in 0..MaxFiles}

\* a field of the schema without its id
FieldBase ==
  [type |-> "text", required |-> FALSE, minLength |-> NoLimit,
   maxLength |-> NoLimit, pattern |-> <<>>, options |-> <<>>,
   maxSize |-> NoLimit, allowedTypes |-> <<>>]

TextFields ==
  {[FieldBase EXCEPT !.type = t, !.required = r, !.minLength = lo,
                     !.maxLength = hi, !.pattern = p] :
     t \in {"text", "textarea"}, r \in BOOLEAN,
     lo \in {NoLimit, 1, MaxChars}, hi \in {NoLimit, 1},
     p \in {<<>>, <<"a">>}}

ChoiceFields ==
  {[FieldBase EXCEPT !.type = t, !.required = r, !.options = o] :
     t \in {"select", "radio", "checkbox"}, r \in BOOLEAN,
     o \in {<<>>, << <<"a">> >>}}

FileFields ==
  {[FieldBase EXCEPT !.type = "file", !.required = r, !.maxSize = m,
                     !.allowedTypes = a] :
     r \in BOOLEAN, m \in {NoLimit, 1},
     a \in {<<>>, <<"application/pdf">>}}

\* a field with the value and the files sent for it.  Files reach a field
\* that is not a file field when they were uploaded under its name.
FieldCases ==
  [field : TextFields \cup ChoiceFields, value : Values,
   files : {<<>>, <<[file_size |-> 1, mime_type |-> "application/pdf"]>>}]
  \cup
  [field : FileFields, value : {None, Str(<<"a">>)}, files : FileLists]

\* the fields that accompany the field under study in a longer schema
CompanionCases ==
  [field : {[FieldBase EXCEPT !.required = TRUE]},
   value : {None, Str(<<"a">>)}, files : {<<>>}]

\* the arguments of a call on a schema of n fields: the case c at position
\* p, the companions d at the other positions; field i has id i
Input(n, p, c, d) ==
  LET cs == [i \in 1..n |-> IF i = p THEN c ELSE d[i]]
  IN [form_schema |-> [fields |-> [i \in 1..n |-> [id |-> i] @@ cs[i].field]],
      form_data |-> [i \in 1..n |-> cs[i].value],
      files_by_field |-> [i \in 1..n |-> cs[i].files]]

\* the arguments of the call
InitValidate ==
  /\ StoreIdle
  /\ MailIdle
  /\ LimiterIdle([limit |-> MaxLimit, window_seconds |-> MaxWindowSeconds])
  /\ FilesIdle
  /\ \E n \in 1..MaxFields, c \in FieldCases :
       \E p \in 1..n, d \in [1..n -> CompanionCases] :
         /\ call_form_schema = Input(n, p, c, d).form_schema
         /\ call_form_data = Input(n, p, c, d).form_data
         /\ call_files_by_field = Input(n, p, c, d).files_by_field
  /\ validation = [pc |-> "called", errors |-> <<>>]

\* the call returns its list of errors
validate_form_data_return ==
  /\ validation.pc = "called"
  /\ validation' =
       [pc |-> "returned",
        errors |-> validate(call_form_data, call_form_schema, call_files_by_field)]
  /\ UNCHANGED <<storeVars, mailVars, limitVars, fileVars,
                 call_form_schema, call_form_data, call_files_by_field>>

NextValidate == validate_form_data_return

\* one call of validate_form_data on every schema, form data and files
SpecValidate == InitValidate /\ [][NextValidate]_vars

TypeOK ==
  /\ now \in {Clock[i] : i \in DOMAIN Clock}
  /\ \A i \in DOMAIN regs : regs[i].status \in StoredStatus
  /\ Len(reqs) <= MaxRequests


(***************************************************************************)
(* Properties.                                                             *)
(***************************************************************************)
Terminal == {"rejected", "not_attending"}

\* the transition graph of section 4.4
Edges ==
  {<<"submitted", "accepted">>, <<"submitted", "rejected">>,
   <<"accepted", "confirmed">>, <<"accepted", "not_attending">>,
   <<"confirmed", "not_attending">>}

Done(k) == reqs[k].pc = "done"

\* C1: once a registration's status is rejected or not_attending, no step of
\* a submit, accept, reject, confirm, decline or check-in request that runs
\* to completion before the next one starts changes that status.
C1_TerminalStatusIsFinal ==
  [][\A i \in DOMAIN regs :
       regs[i].status \in Terminal => regs'[i].status = regs[i].status]_vars

\* a request has found the registration in a terminal status and returned
C1_Witness ==
  \E k \in DOMAIN reqs :
    /\ Done(k) /\ reqs[k].stored \in Terminal
    /\ regs[reqs[k].id].status = reqs[k].stored

\* C2: every change of a stored status by an accept, reject, confirm or
\* decline request follows an edge of the transition graph, under any
\* interleaving of the requests' reads and writes.
C2_EveryChangeFollowsAnEdge ==
  [][\A i \in DOMAIN regs :
       regs'[i].status # regs[i].status
         => <<regs[i].status, regs'[i].status>> \in Edges]_vars


\* the instant t is more than 24 hours before the event of registration i
MoreThan24hAway(t, i) ==
  LET ev == events[regs[i].event_id]
  IN ~has_event_passed(t, ev.date_time) /\ ~is_within_rsvp_cutoff(t, ev.date_time)

\* the requests of kind op on registration i
RequestsOn(op, i) == {k \in DOMAIN reqs : reqs[k].op = op /\ reqs[k].id = i}

\* registration i was created accepted and only confirm requests were made
\* on it
OnlyConfirmed(i) ==
  /\ \E k \in DOMAIN reqs :
       reqs[k].op = "submit" /\ reqs[k].created = i /\ reqs[k].ret.status = "accepted"
  /\ \A k \in DOMAIN reqs : reqs[k].id = i => reqs[k].op = "confirm"

\* the confirm requests on registration i that have returned and were made
\* more than 24 hours before the event
ConfirmsDone(i) ==
  {k \in RequestsOn("confirm", i) : Done(k) /\ MoreThan24hAway(reqs[k].at, i)}

ReturnedConfirmed(k) == reqs[k].result = "ok" /\ reqs[k].ret.status = "confirmed"

\* C3 as claimed: of the confirm requests made on an accepted registration
\* more than 24 hours before the event, exactly one performs the store
\* mutation and every one returns success with the confirmed registration.
C3_AllConfirmsSucceed ==
  \A i \in DOMAIN regs :
    OnlyConfirmed(i) /\ ConfirmsDone(i) # {} =>
      /\ Cardinality({k \in ConfirmsDone(i) : reqs[k].wrote}) = 1
      /\ \A k \in ConfirmsDone(i) : ReturnedConfirmed(k)

\* C3 amended: exactly one performs the mutation and returns the confirmed
\* registration; a request that read the status after that mutation returns
\* the confirmed registration without calling the store update; a request
\* that read accepted before it and writes after it fails with
\* PersistenceFailure and changes nothing.
C3_OneConfirmWinsLoserMayFail ==
  \A i \in DOMAIN regs :
    OnlyConfirmed(i) /\ ConfirmsDone(i) # {} =>
      /\ Cardinality({k \in ConfirmsDone(i) : reqs[k].wrote}) = 1
      /\ \A k \in ConfirmsDone(i) :
           \/ reqs[k].wrote /\ reqs[k].stored = "accepted" /\ ReturnedConfirmed(k)
           \/ /\ reqs[k].stored = "confirmed" /\ ~reqs[k].called
              /\ ReturnedConfirmed(k)
           \/ /\ reqs[k].stored = "accepted" /\ reqs[k].called /\ ~reqs[k].wrote
              /\ reqs[k].before = "confirmed"
              /\ reqs[k].result = "PersistenceFailure"

\* two confirm requests that both read accepted have returned
C3_Witness ==
  \E i \in DOMAIN regs :
    /\ OnlyConfirmed(i)
    /\ \E k, j \in ConfirmsDone(i) :
         k # j /\ reqs[k].stored = "accepted" /\ reqs[j].stored = "accepted"

\* the status a review request writes
ReviewTarget(op) == IF op = "accept" THEN "accepted" ELSE "rejected"

ReviewsOn(i) == RequestsOn("accept", i) \cup RequestsOn("reject", i)

\* C4: at most one review request on a registration succeeds, and the
\* registration's reviewed_by and reviewed_at are the values that request
\* stamped.
C4_AtMostOneReviewSucceeds ==
  \A i \in DOMAIN regs :
    LET ok == {k \in ReviewsOn(i) : Done(k) /\ reqs[k].result = "ok"}
    IN /\ Cardinality(ok) <= 1
       /\ \A k \in ok : /\ regs[i].reviewed_by = reqs[k].ret.reviewed_by
                        /\ regs[i].reviewed_at = reqs[k].ret.reviewed_at

\* C5: a review request succeeds exactly when the registration's status is
\* submitted, and then returns it with the new status and the review stamp;
\* for a missing id it fails with NotFound, for any other status with
\* InvalidState, in both cases without writing.
C5_ReviewRequiresSubmitted ==
  \A k \in DOMAIN reqs :
    Done(k) /\ reqs[k].op \in {"accept", "reject"} =>
      CASE reqs[k].stored = "none" ->
             reqs[k].result = "NotFound" /\ ~reqs[k].called
        [] reqs[k].stored = "submitted" ->
             /\ reqs[k].result = "ok" /\ reqs[k].wrote
             /\ reqs[k].ret.status = ReviewTarget(reqs[k].op)
             /\ reqs[k].ret.reviewed_by = reqs[k].user
             /\ reqs[k].ret.reviewed_at # NoTime
        [] OTHER ->
             reqs[k].result = "InvalidState" /\ ~reqs[k].called


\* requests k and k + 1 of the log are two calls of op in a row on one
\* registration, both made more than 24 hours before the event and both
\* returned
TwiceInARow(op, k) ==
  /\ k + 1 \in DOMAIN reqs
  /\ reqs[k].op = op /\ reqs[k + 1].op = op
  /\ reqs[k].id \in DOMAIN regs /\ reqs[k + 1].id = reqs[k].id
  /\ Done(k) /\ Done(k + 1)
  /\ MoreThan24hAway(reqs[k].at, reqs[k].id)
  /\ MoreThan24hAway(reqs[k + 1].at, reqs[k].id)

\* C6: two confirm calls in a row on an accepted registration, both more
\* than 24 hours before the event, return the same confirmed registration;
\* the first performs the store mutation, the second does not call the
\* store's confirm update, so confirmed_at is the first call's stamp.
C6_ConfirmTwiceIsIdempotent ==
  \A k \in DOMAIN reqs :
    TwiceInARow("confirm", k) /\ reqs[k].stored = "accepted" =>
      /\ ReturnedConfirmed(k) /\ reqs[k].wrote
      /\ reqs[k].ret.confirmed_at # NoTime
      /\ ReturnedConfirmed(k + 1)
      /\ ~reqs[k + 1].called /\ ~reqs[k + 1].wrote
      /\ reqs[k + 1].ret = reqs[k].ret

\* the second of two such confirm calls has returned, at a later instant
\* than the first
C6_Witness ==
  \E k \in DOMAIN reqs :
    /\ TwiceInARow("confirm", k) /\ reqs[k].stored = "accepted"
    /\ reqs[k + 1].at > reqs[k].at

\* C7: two decline calls in a row on an accepted or confirmed registration,
\* both more than 24 hours before the event, both return a not_attending
\* registration; the first performs the mutation and reports the original
\* status as previousStatus, the second reports not_attending and does not
\* call the store's set-not-attending update.
C7_DeclineTwiceIsIdempotent ==
  \A k \in DOMAIN reqs :
    TwiceInARow("decline", k) /\ reqs[k].stored \in {"accepted", "confirmed"} =>
      /\ reqs[k].result = "ok" /\ reqs[k].ret.status = "not_attending"
      /\ reqs[k].wrote /\ reqs[k].previous_status = reqs[k].stored
      /\ reqs[k + 1].result = "ok" /\ reqs[k + 1].ret.status = "not_attending"
      /\ reqs[k + 1].previous_status = "not_attending"
      /\ ~reqs[k + 1].called

\* C8: a confirm of a registration that is already confirmed and a decline
\* of one that is already not_attending return success without a store
\* update, whatever the current time is.
C8_ReinvocationIsSuccess ==
  \A k \in DOMAIN reqs :
    /\ Done(k)
    /\ \/ reqs[k].op = "confirm" /\ reqs[k].stored = "confirmed"
       \/ reqs[k].op = "decline" /\ reqs[k].stored = "not_attending"
    => reqs[k].result = "ok" /\ ~reqs[k].called

\* C9: the previous status of a decline that performed the transition to
\* not_attending is the status the registration held immediately before
\* that transition, so staff are notified exactly when it was confirmed.
C9_PreviousStatusIsStatusBeforeTransition ==
  \A k \in DOMAIN reqs :
    reqs[k].op = "decline" /\ Done(k) /\ reqs[k].wrote =>
      /\ reqs[k].previous_status = reqs[k].before
      /\ (reqs[k].previous_status = "confirmed") = (reqs[k].before = "confirmed")

\* the submit requests that have created a registration and returned
SubmitsDone == {k \in DOMAIN reqs : reqs[k].op = "submit" /\ Done(k)
                                     /\ reqs[k].created # MissingId}

\* event e had auto_accept = true and a max_capacity when its first
\* registration was submitted
StartedAutoAccepting(e) ==
  /\ events[e].max_capacity >= 1
  /\ IF regs = <<>> THEN events[e].auto_accept
     ELSE \A k \in DOMAIN reqs :
            reqs[k].op = "submit" /\ reqs[k].created = 1 => reqs[k].snap.auto_accept

\* C10: with max_capacity = N and auto_accept = true at the start, of the
\* submissions processed one after another the first N are created
\* accepted, the Nth flips auto_accept to false and no other one does, and
\* every later one is created submitted.
C10_CapacityFlipsAutoAccept ==
  \A e \in EventIds :
    StartedAutoAccepting(e) =>
      LET N == events[e].max_capacity
      IN /\ \A k \in SubmitsDone :
              /\ reqs[k].ret.status =
                   IF reqs[k].created <= N THEN "accepted" ELSE "submitted"
              /\ regs[reqs[k].created].event_id = e
              /\ reqs[k].flipped = (reqs[k].created = N)
         /\ events[e].auto_accept = (\A k \in SubmitsDone : reqs[k].created < N)

\* the submission after the one that filled the event has returned
C10_Witness ==
  \E e \in EventIds :
    /\ StartedAutoAccepting(e)
    /\ \E k \in SubmitsDone : reqs[k].created = events[e].max_capacity + 1

PubliclyVisible == {"accepted", "confirmed", "not_attending"}

\* request k is a confirm or a decline that has returned
RsvpDone(k) == reqs[k].op \in {"confirm", "decline"} /\ Done(k)

\* the event of the registration request k names had passed when k was made
EventPassedAt(k) ==
  /\ reqs[k].id \in DOMAIN regs
  /\ has_event_passed(reqs[k].at, events[regs[reqs[k].id].event_id].date_time)

\* C12: a confirm or a decline of a publicly visible registration, made
\* after the event's date_time, fails with EventPassed whatever the visible
\* status is, and calls no store update.
C12_PassedEventGivesEventPassed ==
  \A k \in DOMAIN reqs :
    RsvpDone(k) /\ reqs[k].stored \in PubliclyVisible /\ EventPassedAt(k) =>
      reqs[k].result = "EventPassed" /\ ~reqs[k].called

\* the event of the registration request k names was at most 24 hours away
\* when k was made
WithinCutoffAt(k) ==
  /\ reqs[k].id \in DOMAIN regs
  /\ is_within_rsvp_cutoff(reqs[k].at, events[regs[reqs[k].id].event_id].date_time)

\* the status an RSVP request of kind op moves a registration to, and the
\* statuses it moves it from
RsvpTarget(op) == IF op = "confirm" THEN "confirmed" ELSE "not_attending"

RsvpSources(op) == IF op = "confirm" THEN {"accepted"} ELSE {"accepted", "confirmed"}

\* C13: a confirm or a decline returns the outcome of the first check that
\* does not pass, in the order existence, visibility, event-passed, cutoff,
\* idempotent-check, eligibility, and calls the store update only when all
\* of them pass.
C13_ChecksInFixedOrder ==
  \A k \in DOMAIN reqs :
    RsvpDone(k) =>
      CASE reqs[k].stored \notin PubliclyVisible ->
             reqs[k].result = "NotAccessible" /\ ~reqs[k].called
        [] EventPassedAt(k) ->
             reqs[k].result = "EventPassed" /\ ~reqs[k].called
        [] WithinCutoffAt(k) ->
             reqs[k].result = "CutoffPassed" /\ ~reqs[k].called
        [] reqs[k].stored = RsvpTarget(reqs[k].op) ->
             reqs[k].result = "ok" /\ ~reqs[k].called
        [] reqs[k].stored \notin RsvpSources(reqs[k].op) ->
             reqs[k].result = "NotEligible" /\ ~reqs[k].called
        [] OTHER -> reqs[k].called

\* the date_time of the event of the registration request k names
EventDateOf(k) == events[regs[reqs[k].id].event_id].date_time

\* C14: the cutoff gate holds exactly when now >= date_time - 24h and the
\* passed gate exactly when now > date_time: getDetails reports both so; a
\* confirm or decline of an eligible registration made exactly 24 hours
\* before the event is blocked with CutoffPassed, one made 24 hours and one
\* second before it reaches the store update, and one made at the instant of
\* the event is refused for the cutoff, not as passed.
C14_CutoffInclusivePassedStrict ==
  \A k \in DOMAIN reqs :
    Done(k) /\ reqs[k].id \in DOMAIN regs =>
      LET t == reqs[k].at
          dt == EventDateOf(k)
          day == 24 * 3600
      IN /\ reqs[k].op = "details" /\ reqs[k].result = "ok" =>
              /\ reqs[k].meta.within_rsvp_cutoff = (t + day >= dt)
              /\ reqs[k].meta.event_has_passed = (t > dt)
         /\ RsvpDone(k) /\ reqs[k].stored \in RsvpSources(reqs[k].op) =>
              /\ t + day = dt => reqs[k].result = "CutoffPassed" /\ ~reqs[k].called
              /\ t + day + 1 = dt => reqs[k].called
              /\ t = dt => reqs[k].result = "CutoffPassed" /\ ~reqs[k].called

\* a confirm made 24 hours and one second before the event has written, and
\* getDetails has answered exactly 24 hours before the event
C14_Witness ==
  \E k, j \in DOMAIN reqs :
    /\ reqs[k].op = "confirm" /\ reqs[k].wrote
    /\ reqs[k].at + 24 * 3600 + 1 = EventDateOf(k)
    /\ reqs[j].op = "details" /\ reqs[j].result = "ok"
    /\ reqs[j].at + 24 * 3600 = EventDateOf(j)
    /\ reqs[j].meta.within_rsvp_cutoff

\* request k is a public RSVP request that has returned
PublicDone(k) == reqs[k].op \in {"details", "confirm", "decline"} /\ Done(k)

\* everything a request hands back to its caller
Response(k) ==
  [result |-> reqs[k].result, ret |-> reqs[k].ret, meta |-> reqs[k].meta,
   previous_status |-> reqs[k].previous_status]

\* C15: getDetails, confirm and decline answer a submitted registration, a
\* rejected registration and an id that does not exist with one and the
\* same NotAccessible response, and call no store update.
C15_PreReviewStatusIsNotLeaked ==
  \A k \in DOMAIN reqs :
    PublicDone(k) /\ reqs[k].stored \in {"submitted", "rejected", "none"} =>
      /\ Response(k) = [result |-> "NotAccessible", ret |-> NoRow,
                        meta |-> NoMeta, previous_status |-> "none"]
      /\ ~reqs[k].called /\ ~reqs[k].wrote

\* a public RSVP request on a rejected registration has returned
C15_Witness ==
  \E k \in DOMAIN reqs :
    /\ PublicDone(k) /\ reqs[k].stored = "rejected"
    /\ regs[reqs[k].id].status = "rejected"

\* C16: getDetails of a publicly visible registration returns, at every
\* current time, isFinal = (status is not_attending or rejected), canConfirm
\* = (status is accepted, the event has not passed and is more than 24
\* hours away) and canDecline = (status is accepted or confirmed, the event
\* has not passed and is more than 24 hours away), and writes nothing.
C16_DetailsMetadataIsComputed ==
  \A k \in DOMAIN reqs :
    reqs[k].op = "details" /\ Done(k) /\ reqs[k].stored \in PubliclyVisible =>
      LET st == reqs[k].stored
          open == ~EventPassedAt(k) /\ ~WithinCutoffAt(k)
      IN /\ reqs[k].result = "ok"
         /\ reqs[k].meta.is_final = (st \in {"not_attending", "rejected"})
         /\ reqs[k].meta.can_confirm = (st = "accepted" /\ open)
         /\ reqs[k].meta.can_decline = (st \in {"accepted", "confirmed"} /\ open)
         /\ ~reqs[k].called /\ ~reqs[k].wrote

\* request k of the next state is a submit that has made its checks in the
\* step being taken and has created nothing yet
SubmitChecked(k) ==
  /\ reqs'[k].op = "submit" /\ reqs'[k].created = MissingId
  /\ (k \notin DOMAIN reqs \/ reqs[k] # reqs'[k])

Dispatched(k) == reqs[k].notified = "none" /\ reqs'[k].notified # "none"

Sent == {th \in Senders : senders[th].pc = "done"}

\* C19: any two email sends, from whatever threads, are at least the
\* minimum interval 1 / EMAIL_RATE_LIMIT_RPS apart, and the shared
\* last-send timestamp never decreases.
C19_SendsAreSpacedByMinInterval ==
  /\ [](\A a, b \in Sent :
          a # b =>
            \/ senders[a].sent_at - senders[b].sent_at >= min_interval
            \/ senders[b].sent_at - senders[a].sent_at >= min_interval)
  /\ [][last_email_send_time' >= last_email_send_time]_vars

\* the window of the rate-limited routes, in ticks
WindowTicks == rate_limits.window_seconds * TicksPerSecond

\* the calls before call i that were admitted for the same key with a
\* timestamp no older than the window that ends at call i
AdmittedInWindow(i) ==
  {j \in 1..(i - 1) :
     /\ calls[j].key = calls[i].key /\ calls[j].status = 200
     /\ calls[j].at >= calls[i].at - WindowTicks}

\* the calls of key, and those of them that were admitted
CallsOf(key) == {i \in DOMAIN calls : calls[i].key = key}

AdmittedOf(key) == {i \in CallsOf(key) : calls[i].status = 200}

\* C20: a call is admitted exactly when fewer than limit calls of its
\* (ip, bucket) key were admitted with timestamps in the last
\* window_seconds, and is answered 429 otherwise; so no more than limit calls
\* of a key are admitted in a window, the timestamps kept for a key are
\* those of admitted calls only, and calls of other keys play no part.
C20_AdmitsFewerThanLimitPerWindow ==
  /\ \A i \in DOMAIN calls :
       /\ (calls[i].status = 200) <=> (Cardinality(AdmittedInWindow(i)) < rate_limits.limit)
       /\ (calls[i].status = 429) <=> (Cardinality(AdmittedInWindow(i)) >= rate_limits.limit)
       /\ calls[i].status = 200 =>
            Cardinality({j \in AdmittedOf(calls[i].key) :
                           /\ calls[j].at <= calls[i].at
                           /\ calls[j].at >= calls[i].at - WindowTicks})
              <= rate_limits.limit
  /\ \A key \in Keys :
       /\ Len(requests[key]) <= Cardinality(AdmittedOf(key))
       /\ \A n \in DOMAIN requests[key] :
            \E i \in AdmittedOf(key) : calls[i].at = requests[key][n]

\* a call was admitted, a later call of the same key within the window was
\* refused, and a call of that key made after the window of the first, yet
\* within a window of the refused one, was admitted
C20_Witness ==
  \E i, j, m \in DOMAIN calls :
    /\ i < j /\ j < m
    /\ calls[j].key = calls[i].key /\ calls[m].key = calls[i].key
    /\ calls[i].status = 200 /\ calls[j].status = 429 /\ calls[m].status = 200
    /\ calls[j].at > calls[i].at
    /\ calls[m].at - WindowTicks <= calls[j].at

(***************************************************************************)
(* Properties of validate_form_data.                                       *)
(***************************************************************************)
FieldIndexes == DOMAIN call_form_schema.fields

FieldOf(i) == call_form_schema.fields[i]

ValueOf(i) == call_form_data[FieldOf(i).id]

FilesOf(i) == call_files_by_field[FieldOf(i).id]

\* the errors returned for field i, in order
ErrorsOf(i) ==
  SelectSeq(validation.errors, LAMBDA e : e.field = FieldOf(i).id)

\* the value is absent or empty: no key, null, "" or []
Empty(value) == value \in {None, Str(<<>>), List(<<>>)}

\* the required field i is missing
Missing(i) ==
  /\ FieldOf(i).required
  /\ IF FieldOf(i).type = "file" THEN FilesOf(i) = <<>>
     ELSE \/ ValueOf(i) \in {None, Str(<<>>)}
          \/ FieldOf(i).type = "checkbox" /\ ValueOf(i) = List(<<>>)

\* field i has a value its type, length, pattern and option constraints
\* apply to: it is not a file field, and its value is neither absent nor
\* the empty value of an optional field
HasValue(i) ==
  /\ FieldOf(i).type # "file"
  /\ ValueOf(i) # None
  /\ FieldOf(i).required \/ ~Empty(ValueOf(i))

\* the constraints of the schema that field i violates
Violated(i) ==
  LET field == FieldOf(i)
      value == ValueOf(i)
      text == field.type \in {"text", "textarea"}
      choice == field.type \in {"select", "radio"}
  IN {c \in {"required", "type", "minLength", "maxLength", "pattern",
             "options", "maxSize", "allowedTypes"} :
        CASE c = "required" -> Missing(i)
          [] c = "type" ->
               /\ HasValue(i) /\ ~Missing(i)
               /\ IF field.type = "checkbox" THEN value.kind # "list"
                  ELSE value.kind # "str"
          [] c = "minLength" ->
               /\ HasValue(i) /\ ~Missing(i) /\ text /\ value.kind = "str"
               /\ field.minLength # NoLimit /\ Len(value.chars) < field.minLength
          [] c = "maxLength" ->
               /\ HasValue(i) /\ ~Missing(i) /\ text /\ value.kind = "str"
               /\ field.maxLength # NoLimit /\ Len(value.chars) > field.maxLength
          [] c = "pattern" ->
               /\ HasValue(i) /\ ~Missing(i) /\ text /\ value.kind = "str"
               /\ field.pattern # <<>> /\ ~re_match(field.pattern, value.chars)
          [] c = "options" ->
               /\ HasValue(i) /\ ~Missing(i)
               /\ \/ choice /\ value.kind = "str"
                     /\ \A k \in DOMAIN field.options : field.options[k] # value.chars
                  \/ /\ field.type = "checkbox" /\ value.kind = "list"
                     /\ \E n \in DOMAIN value.items :
                          \/ value.items[n].kind # "str"
                          \/ \A k \in DOMAIN field.options :
                               field.options[k] # value.items[n].chars
          [] c = "maxSize" ->
               /\ field.type = "file" /\ ~Missing(i) /\ field.maxSize # NoLimit
               /\ \E n \in DOMAIN FilesOf(i) : FilesOf(i)[n].file_size > field.maxSize
          [] OTHER ->
               /\ field.type = "file" /\ ~Missing(i) /\ field.allowedTypes # <<>>
               /\ \E n \in DOMAIN FilesOf(i) :
                    \A k \in DOMAIN field.allowedTypes :
                      field.allowedTypes[k] # FilesOf(i)[n].mime_type}

\* C21: validate returns the empty list when the form data and files
\* satisfy every required, type, length, pattern, option and file constraint
\* of the schema, and when exactly one constraint is violated the result
\* has an error whose field is the id of the field that violates it.
C21_ValidAcceptedSingleViolationReported ==
  validation.pc = "returned" =>
    /\ (\A i \in FieldIndexes : Violated(i) = {}) => validation.errors = <<>>
    /\ \A i \in FieldIndexes :
         (/\ Cardinality(Violated(i)) = 1
          /\ \A j \in FieldIndexes \ {i} : Violated(j) = {})
           => ErrorsOf(i) # <<>>

\* C22: a required field that is missing (a file field without an
\* attachment; another field whose value is absent or the empty string; a
\* checkbox whose value is the empty list) gets the one error "This field is
\* required" and no other, and every other field of the schema gets the
\* errors it gets when it is validated alone.
C22_MissingRequiredGivesOneError ==
  validation.pc = "returned" =>
    \A i \in FieldIndexes :
      Missing(i) =>
        /\ ErrorsOf(i) = <<[field |-> FieldOf(i).id,
                            message |-> "This field is required"]>>
        /\ \A j \in FieldIndexes \ {i} :
             ErrorsOf(j) = validate(call_form_data, [fields |-> <<FieldOf(j)>>],
                                    call_files_by_field)

\* the first field is required and missing, and the second field, which has
\* a value, got an error of its own
C22_Witness ==
  /\ validation.pc = "returned"
  /\ Len(call_form_schema.fields) = 2
  /\ Missing(1) /\ ~Missing(2)
  /\ ErrorsOf(1) = <<[field |-> 1, message |-> "This field is required"]>>
  /\ ErrorsOf(2) # <<>>

\* nothing was sent for field i: no attachment for a file field, an absent
\* or empty value for another field
NothingSent(i) ==
  IF FieldOf(i).type = "file" THEN FilesOf(i) = <<>> ELSE Empty(ValueOf(i))

\* C23: a field that is not required and whose value is absent or empty (no
\* key, null, the empty string, the empty list; for a file field, no
\* attachment) gets no error, whatever its type and validation parameters.
C23_EmptyOptionalFieldIsSkipped ==
  validation.pc = "returned" =>
    \A i \in FieldIndexes :
      (~FieldOf(i).required /\ NothingSent(i)) => ErrorsOf(i) = <<>>

\* C25: the write by which a submission turns auto_accept off leaves the
\* field list of the event's stored form schema as it was stored just before
\* that write, also when an admin has updated the schema since the
\* submission read the event.
C25_FlipKeepsStoredFields ==
  [][\A k \in DOMAIN reqs :
       (k \in DOMAIN reqs' /\ ~reqs[k].flipped /\ reqs'[k].flipped) =>
         events'[reqs[k].slug].fields = events[reqs[k].slug].fields]_vars

\* the requests that have issued a check-in update that selected registration i
CheckInWrites(i) ==
  {k \in DOMAIN reqs :
     \/ reqs[k].op = "check_in" /\ reqs[k].id = i /\ reqs[k].wrote
     \/ reqs[k].op = "bulk_check_in" /\ i \in reqs[k].updated}

\* the requests that have issued a check-in update for registration i
CheckInAttempts(i) ==
  {k \in DOMAIN reqs :
     /\ reqs[k].called
     /\ \/ reqs[k].op = "check_in" /\ reqs[k].id = i
        \/ /\ reqs[k].op = "bulk_check_in"
           /\ \E n \in DOMAIN reqs[k].ids : reqs[k].ids[n] = i}

\* C24: whatever the interleaving of single and bulk check-in requests on
\* an accepted or confirmed registration, once any of them has issued its
\* update exactly one update has taken effect, every single check-in whose
\* update did not take effect has failed with Conflict, and checked_in_at
\* and checked_in_by stay as the first check-in wrote them.
C24_CheckedInAtMostOnce ==
  /\ [](\A i \in DOMAIN regs :
          /\ CheckInAttempts(i) # {} =>
               /\ Cardinality(CheckInWrites(i)) = 1
               /\ regs[i].checked_in
               /\ \E k \in CheckInWrites(i) : regs[i].checked_in_by = reqs[k].user
          /\ \A k \in CheckInAttempts(i) \ CheckInWrites(i) :
               reqs[k].op = "check_in" => reqs[k].result = "Conflict")
  /\ [][\A i \in DOMAIN regs :
         regs[i].checked_in =>
           /\ regs'[i].checked_in
           /\ regs'[i].checked_in_at = regs[i].checked_in_at
           /\ regs'[i].checked_in_by = regs[i].checked_in_by]_vars

\* a bulk request checked the registration in at Clock[2], and a single
\* check-in by another staff member, begun before that update and finished
\* at Clock[3], failed with Conflict
C24_Witness ==
  \E k, m \in DOMAIN reqs :
    /\ reqs[k].op = "bulk_check_in" /\ reqs[k].updated = {1}
    /\ reqs[m].op = "check_in" /\ reqs[m].id = 1 /\ m < k
    /\ reqs[m].pc = "done" /\ reqs[m].result = "Conflict"
    /\ reqs[m].user # reqs[k].user
    /\ regs[1].checked_in_by = reqs[k].user
    /\ regs[1].checked_in_at = Clock[2] /\ now = Clock[3]

\* C26: in every reachable state of concurrent review and RSVP requests a
\* registration's confirmed_at is set only if its status is confirmed or
\* not_attending, and every confirmed registration has its confirmed_at set.
C26_ConfirmedAtGoesWithStatus ==
  \A i \in DOMAIN regs :
    /\ regs[i].confirmed_at # NoTime =>
         regs[i].status \in {"confirmed", "not_attending"}
    /\ regs[i].status = "confirmed" => regs[i].confirmed_at # NoTime

\* C29: in every reachable state of review, confirm, decline and check-in
\* requests run one after another, a registration that is checked in has
\* status accepted or confirmed.
C29_CheckedInIsAcceptedOrConfirmed ==
  \A i \in DOMAIN regs :
    regs[i].checked_in => regs[i].status \in {"accepted", "confirmed"}

\* the request that returned last, when nothing has happened since
JustReturned(k) ==
  k = Len(reqs) /\ reqs[k].pc = "done" /\ reqs[k].at = now

\* confirm, called now on registration id, would reach its store update
ConfirmWouldMutate(id) ==
  LET got == get_registration_public(id)
  IN rsvp_confirm_decision(got, get_by_id(got.row.event_id), now) = "proceed"

\* decline, called now on registration id, would reach its store update
DeclineWouldMutate(id) ==
  LET got == get_registration_public(id)
  IN rsvp_decline_decision(got, get_by_id(got.row.event_id), now) = "proceed"

\* C30: the metadata getDetails has just returned agrees with what confirm
\* and decline do at the same instant on the same stored state: can_confirm
\* holds exactly when confirm would perform its update, can_decline exactly
\* when decline would; and a confirm or decline that goes on to its update
\* does so in a state for which the metadata has the flag set.
C30_MetadataAgreesWithOperations ==
  \A k \in DOMAIN reqs :
    /\ (reqs[k].op = "details" /\ reqs[k].result = "ok" /\ JustReturned(k)) =>
         /\ reqs[k].meta.can_confirm <=> ConfirmWouldMutate(reqs[k].id)
         /\ reqs[k].meta.can_decline <=> DeclineWouldMutate(reqs[k].id)
    /\ (reqs[k].pc \in {"confirm_registration", "set_not_attending"}
          /\ k = Len(reqs) /\ reqs[k].at = now) =>
         LET meta == rsvp_metadata(StoredRow(reqs[k].id).status, now,
                                   get_by_id(StoredRow(reqs[k].id).event_id).date_time)
         IN IF reqs[k].op = "confirm" THEN meta.can_confirm ELSE meta.can_decline

\* a confirm has performed its update one second before the cutoff, and
\* getDetails, called at the cutoff, has returned can_confirm and
\* can_decline false for the confirmed registration
C30_Witness ==
  \E k \in DOMAIN reqs :
    /\ k > 1 /\ reqs[k - 1].op = "confirm" /\ reqs[k - 1].wrote
    /\ reqs[k - 1].at = RsvpClock[1]
    /\ reqs[k].op = "details" /\ reqs[k].result = "ok" /\ JustReturned(k)
    /\ now = RsvpClock[2]
    /\ reqs[k].meta.current_status = "confirmed"
    /\ ~reqs[k].meta.can_confirm /\ ~reqs[k].meta.can_decline
    /\ reqs[k].meta.within_rsvp_cutoff

\* the submissions to event e that created their registration as accepted
CreatedAccepted(e) ==
  {k \in DOMAIN reqs :
     /\ reqs[k].op = "submit" /\ reqs[k].slug = e
     /\ reqs[k].created # MissingId /\ reqs[k].ret.status = "accepted"}

\* C27: for an event with max_capacity = N that starts with auto_accept =
\* true and no registration, with at most MaxInFlight submissions in flight
\* at any time and no edit of the schema by an admin, no more than
\* N + MaxInFlight - 1 registrations are created with status accepted.
C27_OvershootIsBounded ==
  \A e \in EventIds :
    StartedAutoAccepting(e) =>
      Cardinality(CreatedAccepted(e)) <= events[e].max_capacity + MaxInFlight - 1

\* an event of capacity 1 has MaxInFlight registrations created accepted by
\* overlapping submissions, and a later submission was created submitted
C27_Witness ==
  \E e \in EventIds :
    /\ StartedAutoAccepting(e) /\ events[e].max_capacity = 1
    /\ Cardinality(CreatedAccepted(e)) = MaxInFlight
    /\ \E k \in SubmitsDone : reqs[k].slug = e /\ reqs[k].ret.status = "submitted"


\* a file that has been linked to a registration
Linked(i) == registration_files[i].registration_id # MissingId

\* C28: once a file attachment has been linked to a registration, no step
\* of a later submission, whichever upload session and event it names,
\* changes the attachment's registration id or its scheduled deletion date.
C28_LinkedFileKeepsRegistration ==
  [][\A i \in DOMAIN registration_files :
       Linked(i) =>
         /\ registration_files'[i].registration_id =
              registration_files[i].registration_id
         /\ registration_files'[i].scheduled_deletion_date =
              registration_files[i].scheduled_deletion_date]_vars

====
